---- MODULE Spec2Model ----
(***************************************************************************)
(* Model of unison.py: the sync orchestrator (main), the sync invoker      *)
(* (unison_sync), the eligibility check (valid_sync_user) and the config   *)
(* materializer (create_user_config).                                      *)
(*                                                                         *)
(* Text is modelled as a sequence of tokens.  The token "USER" stands for  *)
(* the four characters USER, so the placeholder {USER} is the three tokens *)
(* "{", "USER", "}".  "x" is any other character, "\n" the line end.      *)
(***************************************************************************)
EXTENDS Integers, Sequences, FiniteSets, TLC

\* ------------------------------------------------------------------ bounds
MaxFrags == 3        \* fragments in the shared template (SpecConfig)
MaxCalls == 2        \* direct calls of create_user_config (SpecConfig)
UidSpan == 1         \* uids examined on each side of the threshold
MaxExitCode == 14    \* largest exit code the external tool returns

\* ------------------------------------------------- configuration constants
LOWEST_ALLOWED_USER_ID == 501
PROHIBITED_SYNC_USERS == {"root"}
TEMPLATE_CONFIG_TARGETS == <<"Dokument", "Skrivbord", "Bibliotek">>
TEMPLATE_SHARED_CONFIG == "Common"
IGNORED_EXIT_CODES == {}

ExitNotAllowed == 11
ExitNoSyncTarget == 12
ExitInvalidTarget == 13
ExitConfigNotFound == 14
ExitUncaught == 1

\* ------------------------------------------------------------------ values
File(c) == [exists |-> TRUE, content |-> c]
NoFile == [exists |-> FALSE, content |-> <<>>]   \* a path with no file
None == "None"
Running == <<>>             \* exit_code while the process is alive
Exited(status) == <<status>>   \* exit_code once the process has ended
PLACEHOLDER == <<"{", "USER", "}">>

ConfigUsers == {"alice", "bob"}
ConsoleNames == {"alice", "root", "loginwindow"}
Names == ConfigUsers \cup ConsoleNames
Uids == {0} \cup ((LOWEST_ALLOWED_USER_ID - UidSpan)..(LOWEST_ALLOWED_USER_ID + UidSpan))
InvalidTarget == "Musik"
ValidTargets == {TEMPLATE_CONFIG_TARGETS[i] : i \in 1..Len(TEMPLATE_CONFIG_TARGETS)}
AllTargets == ValidTargets \cup {InvalidTarget}
ToolExitCodes == 0..MaxExitCode

\* The ignorable list is a module-level list that main reads at line 198.
\* The file ships it empty, with the tool's codes as commented-out entries;
\* {1, 2} is the list with the two non-fatal codes enabled.
IgnoredConfigs == {IGNORED_EXIT_CODES, {1, 2}}

\* --------------------------------------------------------------- text
RECURSIVE Flatten(_)
Flatten(ss) == IF ss = <<>> THEN <<>> ELSE Head(ss) \o Flatten(Tail(ss))

Drop(s, n) == SubSeq(s, n + 1, Len(s))

\* '{USER}' in config_line
HasPlaceholder(line) ==
    \E i \in 1..Len(line) :
        i + 2 <= Len(line) /\ SubSeq(line, i, i + 2) = PLACEHOLDER

\* iteration over an open file: the lines, each with its terminator
RECURSIVE SplitLines(_, _)
SplitLines(s, cur) ==
    IF s = <<>> THEN (IF cur = <<>> THEN <<>> ELSE <<cur>>)
    ELSE IF Head(s) = "\n" THEN <<Append(cur, "\n")>> \o SplitLines(Tail(s), <<>>)
    ELSE SplitLines(Tail(s), Append(cur, Head(s)))

FileLines(content) == SplitLines(content, <<>>)

\* index of the "}" closing the replacement field opened just before
\* position i, counting nested braces; 0 when the field is never closed
RECURSIVE FieldEnd(_, _, _)
FieldEnd(s, i, depth) ==
    IF i > Len(s) THEN 0
    ELSE IF s[i] = "{" THEN FieldEnd(s, i + 1, depth + 1)
    ELSE IF s[i] = "}" THEN (IF depth = 1 THEN i ELSE FieldEnd(s, i + 1, depth - 1))
    ELSE FieldEnd(s, i + 1, depth)

\* str.format(USER=username): [ok |-> the call returned, text |-> result].
\* "{{" and "}}" are escapes for one brace, {USER} is the keyword field,
\* any other field raises KeyError or IndexError and a lone brace ValueError.
RECURSIVE StrFormat(_, _)
StrFormat(s, username) ==
    IF s = <<>> THEN [ok |-> TRUE, text |-> <<>>]
    ELSE IF Head(s) \in {"{", "}"} /\ Len(s) >= 2 /\ s[2] = Head(s)
    THEN LET r == StrFormat(Drop(s, 2), username)
         IN [ok |-> r.ok, text |-> <<Head(s)>> \o r.text]
    ELSE IF Head(s) = "}" THEN [ok |-> FALSE, text |-> <<>>]
    ELSE IF Head(s) = "{"
    THEN LET e == FieldEnd(s, 2, 1)
         IN IF e = 0 \/ SubSeq(s, 2, e - 1) # <<"USER">>
            THEN [ok |-> FALSE, text |-> <<>>]
            ELSE LET r == StrFormat(Drop(s, e), username)
                 IN [ok |-> r.ok, text |-> <<username>> \o r.text]
    ELSE LET r == StrFormat(Tail(s), username)
         IN [ok |-> r.ok, text |-> <<Head(s)>> \o r.text]

\* body of the loop over the lines of one template
ConfigLine(line, username) ==
    IF HasPlaceholder(line) THEN StrFormat(line, username)
    ELSE [ok |-> TRUE, text |-> line]

\* --------------------------------------------------------------- paths
\* USER_CONFIG_PATH.format(USER=username): the per-user config directory
ConfigBasePath(username) == <<"Users", username>>
\* os.path.join(config_base_path, '<target>.prf')
ConfigPath(username, target) == <<"Users", username, target>>
\* SYNC_TARGET_PATH.format(USER=user_name)
SyncTargetPath(username) == <<"Volumes", username>>

\* --------------------------------------------------------------- exceptions
NoExc == [kind |-> None, code |-> 0]
Raised(kind) == [kind |-> kind, code |-> 0]
SyncExc(code) == [kind |-> "UnisonSyncException", code |-> code]
\* KeyError, IndexError and ValueError of str.format are one kind here:
\* no handler of the program tells them apart
FormatError == "FormatError"

\* --------------------------------------------------------------- files
\* open(config_path, 'w'): the file is created empty or truncated
OpenAppend(old) == old.content
OpenTruncate(old) == <<>>

\* the loop over the lines of one open template: w is
\* [content |-> what the config file holds, exc |-> exception kind raised]
RECURSIVE WriteLines(_, _, _)
WriteLines(w, lines, username) ==
    IF lines = <<>> THEN w
    ELSE LET l == ConfigLine(Head(lines), username)
         IN IF ~l.ok THEN [w EXCEPT !.exc = FormatError]
            ELSE WriteLines([w EXCEPT !.content = w.content \o l.text],
                            Tail(lines), username)

\* one pass of the loop over [shared_template_path, target_template_path]
WriteTemplate(w, template, username) ==
    IF w.exc # None THEN w
    ELSE IF ~template.exists THEN [w EXCEPT !.exc = "IOError_ENOENT"]
    ELSE WriteLines(w, FileLines(template.content), username)

\* create_user_config(username, target) on the filesystem (tpl, cfg, dr),
\* wr telling whether the user's config location can be written.
\* Result: the filesystem after the call, the writes made, the exception.
create_user_config(username, target, tpl, cfg, dr, wr) ==
    LET base == ConfigBasePath(username)
        path == ConfigPath(username, target)
        made == base \notin dr
    IN IF made /\ ~wr
       THEN [configs |-> cfg, dirs |-> dr, events |-> <<>>,
             exc |-> "OSError", ret |-> None]
       ELSE
       LET dr1 == dr \cup {base}
           ev1 == IF made THEN <<[op |-> "mkdir", arg |-> base, code |-> 0]>> ELSE <<>>
       IN IF ~wr
          THEN [configs |-> cfg, dirs |-> dr1, events |-> ev1,
                exc |-> "IOError_EACCES", ret |-> None]
          ELSE
          LET w0 == [content |-> OpenTruncate(cfg[path]), exc |-> None]
              w1 == WriteTemplate(w0, tpl[TEMPLATE_SHARED_CONFIG], username)
              w2 == WriteTemplate(w1, tpl[target], username)
          IN [configs |-> [cfg EXCEPT ![path] = File(w2.content)],
              dirs |-> dr1,
              events |-> Append(ev1, [op |-> "write", arg |-> path, code |-> 0]),
              exc |-> w2.exc,
              ret |-> IF w2.exc = None THEN path ELSE None]

\* --------------------------------------------------------------- checks
valid_sync_target(target) == target \in ValidTargets

valid_sync_user_strict(uid, name) ==
    IF uid <= LOWEST_ALLOWED_USER_ID THEN FALSE
    ELSE IF name \in PROHIBITED_SYNC_USERS THEN FALSE
    ELSE TRUE

valid_sync_user(uid, name) ==
    IF uid < LOWEST_ALLOWED_USER_ID THEN FALSE
    ELSE IF name \in PROHIBITED_SYNC_USERS THEN FALSE
    ELSE TRUE

\* ------------------------------------------------------------------ state
VARIABLES
    pc,         \* the statement about to run ("main_181" is line 181 of main)
    entry,      \* the function that was called from outside
    user,       \* the console user: [name, uid]
    eligible,   \* <<>> or <<the value valid_sync_user returned>>
    idx,        \* how many targets the loop of main has taken
    target,     \* the target argument of unison_sync / create_user_config
    exc,        \* the exception raised and not yet handled
    exit_code,  \* Running, or Exited(the exit status of the process)
    trace,      \* subprocess invocations and filesystem writes, in order
    stdout,     \* the notices printed, in order
    templates,  \* template files: Common and one per target
    configs,    \* generated config files, by path
    dirs,       \* per-user config directories that exist
    mounts,     \* directories that exist under /Volumes
    env,        \* [installed: which finds unison, writable: config location]
    ignored,    \* IGNORED_EXIT_CODES as main reads it
    calls       \* the calls of create_user_config made from outside, in order

vars == <<pc, entry, user, eligible, idx, target, exc, exit_code, trace, stdout,
          templates, configs, dirs, mounts, env, ignored, calls>>

fsvars == <<templates, configs, dirs, mounts, env, ignored>>

Event(op, arg, code) == [op |-> op, arg |-> arg, code |-> code]

TemplateKeys == {TEMPLATE_SHARED_CONFIG} \cup AllTargets
ConfigPaths == {ConfigPath(u, t) : u \in Names, t \in AllTargets}

\* template contents of the runs of main and unison_sync
GoodTemplate == File(<<"x", "{", "USER", "}", "\n">>)
BadTemplate == File(<<"{", "USER", "}", "{", "x", "}", "\n">>)
StaleConfig == File(<<"x", "x", "\n">>)

\* sys.exit(code)
ExitStatus(code) == code % 256

\* ------------------------------------------------------------- raise / exit
\* the process ends with the given status
Exit(status) ==
    /\ pc' = "exit"
    /\ exit_code' = Exited(status)

\* an exception leaves unison_sync: to the try of main, or to the caller
Raise(e) ==
    /\ exc' = e
    /\ pc' = IF entry = "main" THEN "main_197" ELSE "raised"
    /\ UNCHANGED exit_code

\* unison_sync returns normally
Return ==
    /\ pc' = IF entry = "main" THEN "main_193" ELSE "returned"
    /\ UNCHANGED <<exc, exit_code>>

\* ------------------------------------------------------------------ main
\* line 181: get_current_user_stat()
GetCurrentUserStat ==
    /\ pc = "main_181"
    /\ IF user.name \in {"", "loginwindow", None}
       THEN /\ exc' = Raised("DataCollectionException")
            /\ Exit(ExitUncaught)
       ELSE /\ pc' = "main_183"
            /\ UNCHANGED <<exc, exit_code>>
    /\ UNCHANGED <<entry, user, eligible, idx, target, trace, stdout, calls>>
    /\ UNCHANGED fsvars

\* line 185: sys.exit(11)
NotAllowedExitZero == ExitStatus(0)
NotAllowedExit == ExitStatus(ExitNotAllowed)

\* lines 183-185
CheckUser ==
    /\ pc = "main_183"
    /\ eligible' = <<valid_sync_user(user.uid, user.name)>>
    /\ IF ~valid_sync_user(user.uid, user.name)
       THEN /\ stdout' = Append(stdout, "Sync should not run for user")
            /\ Exit(NotAllowedExit)
       ELSE /\ pc' = "main_188"
            /\ UNCHANGED <<stdout, exit_code>>
    /\ UNCHANGED <<entry, user, idx, target, exc, trace, calls>>
    /\ UNCHANGED fsvars

\* os.path.isdir(sync_target)
IsDirAlways(path) == TRUE
IsDir(path) == path \in mounts

\* lines 188-191
CheckMount ==
    /\ pc = "main_188"
    /\ IF ~IsDir(SyncTargetPath(user.name))
       THEN /\ stdout' = Append(stdout, "Target sync directory does not exist")
            /\ Exit(ExitStatus(ExitNoSyncTarget))
       ELSE /\ pc' = "main_193"
            /\ UNCHANGED <<stdout, exit_code>>
    /\ UNCHANGED <<entry, user, eligible, idx, target, exc, trace, calls>>
    /\ UNCHANGED fsvars

\* line 193: the iterator over TEMPLATE_CONFIG_TARGETS; the position after i
NextIndexSkip(i) == i + 2
NextIndex(i) == i + 1

\* lines 193-196: the next target, or the end of main
LoopNext ==
    /\ pc = "main_193"
    /\ IF NextIndex(idx) <= Len(TEMPLATE_CONFIG_TARGETS)
       THEN /\ idx' = NextIndex(idx)
            /\ target' = TEMPLATE_CONFIG_TARGETS[NextIndex(idx)]
            /\ stdout' = Append(stdout, "Running sync for")
            /\ pc' = "sync_109"
            /\ UNCHANGED exit_code
       ELSE /\ Exit(0)
            /\ UNCHANGED <<idx, target, stdout>>
    /\ UNCHANGED <<entry, user, eligible, exc, trace, calls>>
    /\ UNCHANGED fsvars

\* the except clauses of main, lines 197-207: the exit status the exception
\* ends the run with, or Running when the loop goes on
HandlerNeverAbort(e, ign) ==
    IF e.kind = "UnisonSyncException" THEN Running
    ELSE IF e.kind = "InvalidUnisonTargetException"
    THEN Exited(ExitStatus(ExitInvalidTarget))
    ELSE IF e.kind = "ConfigurationNotFoundException"
    THEN Exited(ExitStatus(ExitConfigNotFound))
    ELSE Exited(ExitUncaught)

Handler(e, ign) ==
    IF e.kind = "UnisonSyncException"
    THEN (IF e.code \notin ign THEN Exited(ExitStatus(e.code)) ELSE Running)
    ELSE IF e.kind = "InvalidUnisonTargetException"
    THEN Exited(ExitStatus(ExitInvalidTarget))
    ELSE IF e.kind = "ConfigurationNotFoundException"
    THEN Exited(ExitStatus(ExitConfigNotFound))
    ELSE Exited(ExitUncaught)

MainExcept ==
    /\ pc = "main_197"
    /\ IF Handler(exc, ignored) = Running
       THEN /\ pc' = "main_193"
            /\ exc' = NoExc
            /\ UNCHANGED <<exit_code, stdout>>
       ELSE /\ Exit(Handler(exc, ignored)[1])
            /\ stdout' = Append(stdout, exc.kind)
            /\ UNCHANGED exc
    /\ UNCHANGED <<entry, user, eligible, idx, target, trace, calls>>
    /\ UNCHANGED fsvars

\* ----------------------------------------------------------- unison_sync
\* line 109: subprocess.check_output(['which', 'unison'])
SyncWhich ==
    /\ pc = "sync_109"
    /\ trace' = Append(trace, Event("which", target, 0))
    /\ IF env.installed
       THEN /\ pc' = "sync_111"
            /\ UNCHANGED <<exc, exit_code>>
       ELSE Raise(Raised("CalledProcessError"))
    /\ UNCHANGED <<entry, user, eligible, idx, target, stdout, calls>>
    /\ UNCHANGED fsvars

\* lines 111-112
SyncValidate ==
    /\ pc = "sync_111"
    /\ IF valid_sync_target(target)
       THEN /\ pc' = "sync_114"
            /\ UNCHANGED <<exc, exit_code>>
       ELSE Raise(Raised("InvalidUnisonTargetException"))
    /\ UNCHANGED <<entry, user, eligible, idx, target, trace, stdout, calls>>
    /\ UNCHANGED fsvars

\* lines 117-122: what the except IOError clause lets out
SyncConfigExcReraise(kind) == kind
SyncConfigExc(kind) ==
    IF kind = "IOError_ENOENT" THEN "ConfigurationNotFoundException" ELSE kind

\* lines 114-122
SyncCreateConfig ==
    /\ pc = "sync_114"
    /\ LET r == create_user_config(user.name, target, templates, configs, dirs,
                                   env.writable)
       IN /\ configs' = r.configs
          /\ dirs' = r.dirs
          /\ trace' = trace \o r.events
          /\ IF r.exc = None
             THEN /\ stdout' = Append(stdout, "Created config")
                  /\ pc' = "sync_124"
                  /\ UNCHANGED <<exc, exit_code>>
             ELSE /\ Raise(Raised(SyncConfigExc(r.exc)))
                  /\ UNCHANGED stdout
    /\ UNCHANGED <<entry, user, eligible, idx, target, calls>>
    /\ UNCHANGED <<templates, mounts, env, ignored>>

\* lines 124-130: the tool runs and exits with some code
SyncRun ==
    /\ pc = "sync_124"
    /\ \E code \in ToolExitCodes :
          /\ trace' = Append(trace, Event("unison", target, code))
          /\ IF code = 0 THEN Return ELSE Raise(SyncExc(code))
    /\ UNCHANGED <<entry, user, eligible, idx, target, stdout, calls>>
    /\ UNCHANGED fsvars

\* ------------------------------------------------------- create_user_config
\* a call of create_user_config(username, target) from outside
CreateUserConfigCall ==
    /\ pc = "config_145"
    /\ Len(calls) < MaxCalls
    /\ \E u \in ConfigUsers :
          LET r == create_user_config(u, target, templates, configs, dirs,
                                      env.writable)
          IN /\ configs' = r.configs
             /\ dirs' = r.dirs
             /\ trace' = trace \o r.events
             /\ exc' = Raised(r.exc)
             /\ user' = [name |-> u, uid |-> LOWEST_ALLOWED_USER_ID]
             /\ calls' = Append(calls, [username |-> u, target |-> target,
                                        path |-> ConfigPath(u, target),
                                        exc |-> r.exc, before |-> configs])
    /\ UNCHANGED <<pc, entry, eligible, idx, target, exit_code, stdout>>
    /\ UNCHANGED <<templates, mounts, env, ignored>>

\* ------------------------------------------------------------ initial states
\* what an earlier run left in the user's config directory
PriorStates == {"fresh", "dir", "stale"}
PriorDirs(name, prior) == IF prior = "fresh" THEN {} ELSE {ConfigBasePath(name)}
PriorConfigs(name, prior) ==
    [p \in ConfigPaths |->
        IF prior = "stale" /\ p \in {ConfigPath(name, t) : t \in AllTargets}
        THEN StaleConfig ELSE NoFile]

RunTemplates ==
    {f \in [TemplateKeys -> {GoodTemplate, BadTemplate, NoFile}] :
        /\ f[InvalidTarget] = NoFile
        /\ \A t \in ValidTargets : f[t] # BadTemplate}

InitProcess ==
    /\ eligible = <<>>
    /\ idx = 0
    /\ exc = NoExc
    /\ exit_code = Running
    /\ trace = <<>>
    /\ stdout = <<>>
    /\ calls = <<>>

\* the script is started: python unison.py
Init ==
    /\ InitProcess
    /\ pc = "main_181"
    /\ entry = "main"
    /\ target = None
    /\ user \in [name : ConsoleNames, uid : Uids]
    /\ templates \in RunTemplates
    /\ \E prior \in PriorStates :
          /\ dirs = PriorDirs(user.name, prior)
          /\ configs = PriorConfigs(user.name, prior)
    /\ mounts \in {{}, {SyncTargetPath(user.name)}}
    /\ env \in [installed : BOOLEAN, writable : BOOLEAN]
    /\ ignored \in IgnoredConfigs

Next ==
    \/ GetCurrentUserStat
    \/ CheckUser
    \/ CheckMount
    \/ LoopNext
    \/ MainExcept
    \/ SyncWhich
    \/ SyncValidate
    \/ SyncCreateConfig
    \/ SyncRun

Spec == Init /\ [][Next]_vars

\* unison_sync(user, target) is called with any target name
InitSync ==
    /\ InitProcess
    /\ pc = "sync_109"
    /\ entry = "unison_sync"
    /\ target \in AllTargets
    /\ user \in [name : ConfigUsers, uid : {LOWEST_ALLOWED_USER_ID}]
    /\ templates \in RunTemplates
    /\ \E prior \in PriorStates :
          /\ dirs = PriorDirs(user.name, prior)
          /\ configs = PriorConfigs(user.name, prior)
    /\ mounts = {SyncTargetPath(user.name)}
    /\ env \in [installed : BOOLEAN, writable : BOOLEAN]
    /\ ignored = IGNORED_EXIT_CODES

NextSync ==
    \/ SyncWhich
    \/ SyncValidate
    \/ SyncCreateConfig
    \/ SyncRun

SpecSync == InitSync /\ [][NextSync]_vars

\* create_user_config(username, target) is called on any pair of templates
Fragments == {PLACEHOLDER, <<"{">>, <<"}">>, <<"USER">>, <<"x">>, <<"\n">>}
FragmentSeqs(n) == UNION {[1..k -> Fragments] : k \in 0..n}
SharedFiles == {NoFile} \cup {File(Flatten(fs)) : fs \in FragmentSeqs(MaxFrags)}
TargetFiles ==
    {NoFile, File(<<>>), File(<<"x", "\n">>), File(<<"{", "USER", "}", "x">>)}
ConfigTarget == TEMPLATE_CONFIG_TARGETS[1]

InitConfig ==
    /\ InitProcess
    /\ pc = "config_145"
    /\ entry = "create_user_config"
    /\ target = ConfigTarget
    /\ user = [name |-> None, uid |-> 0]
    /\ \E sh \in SharedFiles, tg \in TargetFiles :
          templates = [k \in TemplateKeys |->
                          IF k = TEMPLATE_SHARED_CONFIG THEN sh
                          ELSE IF k = ConfigTarget THEN tg ELSE NoFile]
    /\ \E prior \in {"fresh", "stale"}, u \in ConfigUsers :
          /\ dirs = PriorDirs(u, prior)
          /\ configs = PriorConfigs(u, prior)
    /\ mounts = {}
    /\ env = [installed |-> TRUE, writable |-> TRUE]
    /\ ignored = IGNORED_EXIT_CODES

NextConfig == CreateUserConfigCall

SpecConfig == InitConfig /\ [][NextConfig]_vars

\* ================================================================ claims
NTargets == Len(TEMPLATE_CONFIG_TARGETS)
LastTarget == TEMPLATE_CONFIG_TARGETS[NTargets]
TargetIndex(t) == CHOOSE k \in 1..NTargets : TEMPLATE_CONFIG_TARGETS[k] = t
NotMkdir(e) == e.op # "mkdir"
\* the subprocess invocations and config file writes of the run
Effects == SelectSeq(trace, NotMkdir)
Tolerated(code) == code = 0 \/ code \in ignored
\* target k was attempted in full: tool located, config written, tool run
FullAttempt(E, k) ==
    /\ E[3 * k - 2] = Event("which", TEMPLATE_CONFIG_TARGETS[k], 0)
    /\ E[3 * k - 1] = Event("write", ConfigPath(user.name, TEMPLATE_CONFIG_TARGETS[k]), 0)
    /\ E[3 * k].op = "unison"
    /\ E[3 * k].arg = TEMPLATE_CONFIG_TARGETS[k]
    /\ Tolerated(E[3 * k].code)

\* C1: in the loop of main, a non-zero tool exit code in the ignorable set is
\* followed by the attempt of the next target (or, after the last target, by
\* the normal end of the run); a non-zero code outside the set ends the run
\* with that code, and nothing is done for any later target.
C1_IgnorableContinuesOthersAbort ==
    \A i \in 1..Len(trace) :
        (trace[i].op = "unison" /\ trace[i].code # 0) =>
            IF trace[i].code \in ignored
            THEN /\ i < Len(trace) =>
                      /\ trace[i].arg # LastTarget
                      /\ trace[i + 1] =
                            Event("which", TEMPLATE_CONFIG_TARGETS[TargetIndex(trace[i].arg) + 1], 0)
                 /\ i = Len(trace) =>
                      /\ pc \in {"main_197", "main_193", "sync_109", "exit"}
                      /\ pc = "sync_109" => idx = TargetIndex(trace[i].arg) + 1
                      /\ pc = "exit" => (exit_code = Exited(0) /\ trace[i].arg = LastTarget)
            ELSE /\ i = Len(trace)
                 /\ idx = TargetIndex(trace[i].arg)
                 /\ pc \in {"main_197", "exit"}
                 /\ pc = "exit" => exit_code = Exited(ExitStatus(trace[i].code))

\* an ignorable code on the first target, then an abort on the second
C1_Witness ==
    /\ pc = "exit"
    /\ Len(Effects) = 6
    /\ Effects[3].op = "unison" /\ Effects[3].code # 0 /\ Effects[3].code \in ignored
    /\ Effects[6].op = "unison" /\ Effects[6].code \notin ignored /\ Effects[6].code # 0
    /\ exit_code = Exited(Effects[6].code)

\* C2 as stated: an ineligible console user ends the run with a notice and
\* exit code 0.
C2_IneligibleExitsZero ==
    (pc = "exit" /\ eligible = <<FALSE>>) =>
        (exit_code = Exited(0) /\ stdout = <<"Sync should not run for user">>)

\* C2 amended: an ineligible console user ends the run with a notice and exit
\* code 11.
C2_IneligibleExitsEleven ==
    eligible = <<FALSE>> =>
        /\ pc = "exit"
        /\ exit_code = Exited(ExitNotAllowed)
        /\ stdout = <<"Sync should not run for user">>

C2_Witness ==
    /\ pc = "exit"
    /\ eligible = <<FALSE>>
    /\ user.name \notin PROHIBITED_SYNC_USERS

\* C3 as stated: unison_sync with a target outside the valid list fails with
\* InvalidUnisonTargetException, having written nothing and invoked no
\* subprocess.
C3_InvalidTargetNoSideEffect ==
    (entry = "unison_sync" /\ target \notin ValidTargets /\ pc \in {"raised", "returned"}) =>
        /\ pc = "raised"
        /\ exc.kind = "InvalidUnisonTargetException"
        /\ trace = <<>>

\* C4: an eligible user whose mount directory is missing ends the run with
\* exit code 12, and no config file was written and no subprocess invoked.
C4_MissingMountExitsTwelve ==
    (eligible = <<TRUE>> /\ SyncTargetPath(user.name) \notin mounts) =>
        /\ pc \in {"main_188", "exit"}
        /\ pc = "exit" => exit_code = Exited(ExitNoSyncTarget)
        /\ trace = <<>>
        /\ exc = NoExc

C4_Witness ==
    /\ pc = "exit"
    /\ eligible = <<TRUE>>
    /\ SyncTargetPath(user.name) \notin mounts
    /\ exit_code = Exited(ExitNoSyncTarget)

\* the k-th target's template is missing and nothing else is in the way
MissingTemplateOnly(k) ==
    /\ eligible = <<TRUE>>
    /\ SyncTargetPath(user.name) \in mounts
    /\ env.installed /\ env.writable
    /\ templates[TEMPLATE_SHARED_CONFIG] = GoodTemplate
    /\ \A j \in 1..(k - 1) : templates[TEMPLATE_CONFIG_TARGETS[j]] = GoodTemplate
    /\ ~templates[TEMPLATE_CONFIG_TARGETS[k]].exists
    /\ \A i \in 1..Len(trace) : trace[i].op = "unison" => Tolerated(trace[i].code)

\* C5: when the template of the k-th target is missing and all before it
\* succeeds, the run ends with ConfigurationNotFoundException and exit code 14
\* after attempting every target before k in full; the attempt of target k
\* stops in the config materialization, and no later target is attempted.
C5_MissingTemplateAbortsAtK ==
    \A k \in 1..NTargets :
        /\ ~templates[TEMPLATE_CONFIG_TARGETS[k]].exists => idx <= k
        /\ (MissingTemplateOnly(k) /\ pc = "exit") =>
              /\ exit_code = Exited(ExitConfigNotFound)
              /\ exc.kind = "ConfigurationNotFoundException"
              /\ idx = k
              /\ Len(Effects) = 3 * (k - 1) + 2
              /\ \A j \in 1..(k - 1) : FullAttempt(Effects, j)
              /\ Effects[3 * k - 2] = Event("which", TEMPLATE_CONFIG_TARGETS[k], 0)
              /\ Effects[3 * k - 1] =
                    Event("write", ConfigPath(user.name, TEMPLATE_CONFIG_TARGETS[k]), 0)

\* the second target's template is missing
C5_Witness ==
    /\ MissingTemplateOnly(2)
    /\ pc = "exit"
    /\ exit_code = Exited(ExitConfigNotFound)
    /\ templates[TEMPLATE_CONFIG_TARGETS[3]].exists

\* C6 as stated: a sync failure never ends the run with the exit code of
\* another failure kind (11, 12, 13, 14), and each of those kinds has its own
\* code.
C6_DistinctExitCodes ==
    pc = "exit" =>
        /\ exc.kind = "UnisonSyncException" =>
              exit_code \notin {Exited(ExitNotAllowed), Exited(ExitNoSyncTarget),
                                  Exited(ExitInvalidTarget), Exited(ExitConfigNotFound)}
        /\ exc.kind = "ConfigurationNotFoundException" => exit_code = Exited(ExitConfigNotFound)
        /\ exc.kind = "InvalidUnisonTargetException" => exit_code = Exited(ExitInvalidTarget)
        /\ eligible = <<FALSE>> => exit_code = Exited(ExitNotAllowed)
        /\ (exc = NoExc /\ eligible = <<TRUE>> /\ exit_code # Exited(0)) =>
              exit_code = Exited(ExitNoSyncTarget)

\* C7: valid_sync_user returns true exactly when the uid is at least
\* LOWEST_ALLOWED_USER_ID and the name is not prohibited.
C7_EligibleIffUidAndName ==
    eligible # <<>> =>
        /\ eligible[1] = (user.uid >= LOWEST_ALLOWED_USER_ID
                            /\ user.name \notin PROHIBITED_SYNC_USERS)
        /\ user.uid < LOWEST_ALLOWED_USER_ID => eligible[1] = FALSE
        /\ user.name \in PROHIBITED_SYNC_USERS => eligible[1] = FALSE

\* a prohibited name with a uid at the threshold
C7_Witness ==
    /\ eligible = <<FALSE>>
    /\ user.uid = LOWEST_ALLOWED_USER_ID
    /\ user.name \in PROHIBITED_SYNC_USERS

\* C10: a run of main that ends with exit code 0 had an eligible user and an
\* existing mount directory, and attempted every configured target once, in
\* order: tool located, config written, tool run with exit code 0 or an
\* ignorable code.
C10_ExitZeroMeansAllSynced ==
    (entry = "main" /\ pc = "exit" /\ exit_code = Exited(0)) =>
        /\ user.uid >= LOWEST_ALLOWED_USER_ID
        /\ user.name \notin PROHIBITED_SYNC_USERS
        /\ SyncTargetPath(user.name) \in mounts
        /\ Len(Effects) = 3 * NTargets
        /\ \A k \in 1..NTargets : FullAttempt(Effects, k)

C10_Witness ==
    /\ pc = "exit"
    /\ exit_code = Exited(0)
    /\ \E i \in 1..Len(trace) : trace[i].op = "unison" /\ trace[i].code # 0
    /\ \E i \in 1..Len(trace) : trace[i].op = "mkdir"

\* text with every {USER} replaced by the username, all else as it is
RECURSIVE ReplaceAll(_, _)
ReplaceAll(s, username) ==
    IF s = <<>> THEN <<>>
    ELSE IF Len(s) >= 3 /\ SubSeq(s, 1, 3) = PLACEHOLDER
    THEN <<username>> \o ReplaceAll(Drop(s, 3), username)
    ELSE <<Head(s)>> \o ReplaceAll(Tail(s), username)

LastCall == calls[Len(calls)]

\* C8 as stated: after a successful create_user_config the destination file
\* is the shared template followed by the target template, every {USER}
\* replaced by the username and every other character as in the source.
C8_OutputIsTemplatesWithUserReplaced ==
    (Len(calls) > 0 /\ LastCall.exc = None) =>
        configs[LastCall.path] =
            File(ReplaceAll(templates[TEMPLATE_SHARED_CONFIG].content, LastCall.username)
                 \o ReplaceAll(templates[LastCall.target].content, LastCall.username))

\* the lines a successful call writes for this username, in order
RECURSIVE LinesText(_, _)
LinesText(lines, username) ==
    IF lines = <<>> THEN <<>>
    ELSE ConfigLine(Head(lines), username).text \o LinesText(Tail(lines), username)

Written(username, t) ==
    LinesText(FileLines(templates[TEMPLATE_SHARED_CONFIG].content), username)
    \o LinesText(FileLines(templates[t].content), username)

\* C9 as stated: two calls for the same target with different usernames write
\* the same destination file, which then holds the second call's result only.
C9_SecondCallOverwritesFirst ==
    \A i \in 1..(Len(calls) - 1) :
        (/\ calls[i].exc = None /\ calls[i + 1].exc = None
         /\ calls[i].target = calls[i + 1].target
         /\ calls[i].username # calls[i + 1].username) =>
            /\ calls[i].path = calls[i + 1].path
            /\ configs[calls[i].path] = File(Written(calls[i + 1].username, calls[i].target))

\* C9 amended: calls for the same target with different usernames write
\* different destination files (the path holds the username); every
\* destination file holds exactly what the last successful call for its
\* username wrote, with nothing of what it held before, longer or shorter.
C9_EachCallOverwritesItsOwnFile ==
    \A i \in 1..Len(calls) :
        /\ \A j \in 1..Len(calls) :
              calls[i].username # calls[j].username => calls[i].path # calls[j].path
        /\ (/\ calls[i].exc = None
            /\ \A j \in (i + 1)..Len(calls) : calls[j].path # calls[i].path) =>
              configs[calls[i].path] = File(Written(calls[i].username, calls[i].target))

\* two successful calls with different usernames, the second onto a file
\* that held more than the call wrote
C9_Witness ==
    /\ Len(calls) >= 2
    /\ calls[1].exc = None /\ calls[2].exc = None
    /\ calls[1].username # calls[2].username
    /\ calls[2].before[calls[2].path].exists
    /\ Len(calls[2].before[calls[2].path].content) > Len(configs[calls[2].path].content)
    /\ HasPlaceholder(templates[TEMPLATE_SHARED_CONFIG].content)

====
